---- MODULE Spec2Model ----
(***************************************************************************)
(* Model of MusicPlayerApp (src/music_player_app.py): the library scan,    *)
(* the playback controller driven by the page handlers and the 500 ms      *)
(* progress timer, and the persisted favorites list.                       *)
(***************************************************************************)
EXTENDS Integers, Sequences, FiniteSets, TLC

(***************************************************************************)
(* Bounds of the model.                                                    *)
(***************************************************************************)
\* largest number of directory entries a scanned music root holds
MaxFiles == 3
\* index arguments of a direct play_track call range over -1..MaxIndex
MaxIndex == 3
\* consecutive in-window polls that are counted
MaxPolls == 3

(***************************************************************************)
(* Values.                                                                 *)
(***************************************************************************)
\* Python's None (no album name, artist name or file name equals it)
None == "<None>"
\* no media object has been handed to the engine
NoMedia == "<no media>"
\* no exception left the last handler
NoError == "<no error>"

\* trailing window of update_progress, in milliseconds
EndWindowMs == 500

albums_per_page == 8
artists_per_page == 14
favorites_per_page == 10
tracks_per_page == 10

(***************************************************************************)
(* The files a music root can hold.  A file's tags are fixed for the run:  *)
(* get_metadata re-reads the same content on every call.                   *)
(*   ext    the file name's extension as written                           *)
(*   kind   what mutagen.File returns: FLAC, MP3, another container        *)
(*          ("other"), or an exception ("corrupt")                         *)
(*   tags   the tag fields present (text of the track number as characters)*)
(*   pics   embedded pictures, in order                                    *)
(*   dir    the containing directory                                       *)
(***************************************************************************)
ScanFiles ==
    [ a1 |-> [ext |-> "flac", kind |-> "flac", dir |-> "d1",
              tags |-> [title |-> "One", artist |-> "X", album |-> "A",
                        tracknumber |-> <<"1">>],
              pics |-> <<"pic1", "pic2">>],
      a2 |-> [ext |-> "FLAC", kind |-> "flac", dir |-> "d1",
              tags |-> [title |-> "Two", artist |-> "X", album |-> "A",
                        tracknumber |-> <<"2", "/", "3">>],
              pics |-> <<>>],
      a3 |-> [ext |-> "mp3", kind |-> "mp3", dir |-> "d3",
              tags |-> [title |-> "Three", artist |-> "Y", album |-> "A"],
              pics |-> <<>>],
      b1 |-> [ext |-> "mp3", kind |-> "mp3", dir |-> "d2",
              tags |-> [title |-> "Bee", artist |-> "Y", album |-> "B",
                        tracknumber |-> <<"x">>],
              pics |-> <<"pic3">>],
      u1 |-> [ext |-> "ogg", kind |-> "corrupt", dir |-> "d2",
              tags |-> [title |-> "Lost"],
              pics |-> <<>>],
      o1 |-> [ext |-> "ogg", kind |-> "other", dir |-> "d1",
              tags |-> [title |-> "Four", artist |-> "X", album |-> "A",
                        tracknumber |-> <<"4">>],
              pics |-> <<>>],
      n1 |-> [ext |-> "txt", kind |-> "other", dir |-> "d1",
              tags |-> [title |-> "Notes"],
              pics |-> <<>>] ]

Paths == DOMAIN ScanFiles

\* a library of eleven one-track albums, one more than a favorites page
\* holds; every file carries its own name as title and album
PagedAlbums ==
    <<"F01", "F02", "F03", "F04", "F05", "F06", "F07", "F08", "F09", "F10",
      "F11">>

PagedFiles ==
    [p \in {PagedAlbums[i] : i \in 1..Len(PagedAlbums)} |->
        [ext |-> "mp3", kind |-> "mp3", dir |-> "d3",
         tags |-> [title |-> p, artist |-> "Z", album |-> p],
         pics |-> <<>>]]

FileTable == ScanFiles @@ PagedFiles

\* directory listings: entry name, and the bytes read from it (None: the
\* open or read raises)
DirTable ==
    [ d1 |-> << [name |-> "Cover.JPG", data |-> "img1"] >>,
      d2 |-> << [name |-> "folder.png", data |-> None],
                [name |-> "front.jpg", data |-> "img2"] >>,
      d3 |-> << >> ]

\* str.lower() on the names that occur
Lower(s) ==
    CASE s = "FLAC" -> "flac"
      [] s = "Cover.JPG" -> "cover.jpg"
      [] OTHER -> s

AudioExts == {"flac", "mp3", "m4a", "ogg"}

\* the order of str comparison on the album and artist names that occur
NameOrder ==
    <<"A", "B">> \o PagedAlbums \o
    <<"Unknown Album", "Unknown Artist", "X", "Y", "Z">>

NameRank(n) == CHOOSE i \in 1..Len(NameOrder) : NameOrder[i] = n

(***************************************************************************)
(* Sequence helpers.                                                       *)
(***************************************************************************)
Range(s) == {s[i] : i \in 1..Len(s)}

\* list.sort(key=...) / sorted(): stable, ascending
RECURSIVE InsertByKey(_, _, _)
InsertByKey(sorted, x, key) ==
    IF sorted = <<>> THEN <<x>>
    ELSE IF key[x] < key[Head(sorted)] THEN <<x>> \o sorted
    ELSE <<Head(sorted)>> \o InsertByKey(Tail(sorted), x, key)

RECURSIVE SortByKey(_, _)
SortByKey(s, key) ==
    IF s = <<>> THEN <<>>
    ELSE InsertByKey(SortByKey(SubSeq(s, 1, Len(s) - 1), key), s[Len(s)], key)

\* Python slice s[start:end] on a 0-based list
Slice(s, start, end) ==
    SubSeq(s, start + 1, IF end < Len(s) THEN end ELSE Len(s))

\* [x for x in s if x in keep]
RECURSIVE FilterIn(_, _)
FilterIn(s, keep) ==
    IF s = <<>> THEN <<>>
    ELSE IF Head(s) \in keep THEN <<Head(s)>> \o FilterIn(Tail(s), keep)
    ELSE FilterIn(Tail(s), keep)

\* all sequences of distinct elements of S of length at most n
RECURSIVE DistinctSeqs(_, _)
DistinctSeqs(S, n) ==
    IF n = 0 THEN {<<>>}
    ELSE LET shorter == DistinctSeqs(S, n - 1)
         IN shorter \cup
            UNION {{s \o <<x>> : x \in S \ Range(s)} : s \in shorter}

(***************************************************************************)
(* Track-number text: int(str(track_num).split('/')[0]).                   *)
(***************************************************************************)
Digits == <<"0", "1", "2", "3", "4", "5", "6", "7", "8", "9">>

IsDigit(c) == \E d \in 1..10 : Digits[d] = c

DigitVal(c) == (CHOOSE d \in 1..10 : Digits[d] = c) - 1

\* str.split('/')[0]: the text before the first "/"
RECURSIVE SplitFirst(_)
SplitFirst(text) ==
    IF text = <<>> \/ Head(text) = "/" THEN <<>>
    ELSE <<Head(text)>> \o SplitFirst(Tail(text))

RECURSIVE DigitsValue(_)
DigitsValue(ds) ==
    IF ds = <<>> THEN 0
    ELSE 10 * DigitsValue(SubSeq(ds, 1, Len(ds) - 1)) + DigitVal(ds[Len(ds)])

\* int(text) succeeds on an optional sign followed by one or more digits
IntParses(text) ==
    LET body == IF text # <<>> /\ Head(text) \in {"-", "+"}
                THEN Tail(text) ELSE text
    IN body # <<>> /\ \A i \in 1..Len(body) : IsDigit(body[i])

IntValue(text) ==
    IF Head(text) = "-" THEN 0 - DigitsValue(Tail(text))
    ELSE IF Head(text) = "+" THEN DigitsValue(Tail(text))
    ELSE DigitsValue(text)

\* the try/except around int(): ValueError yields 0
int_or_zero(text) == IF IntParses(text) THEN IntValue(text) ELSE 0

parse_track(text) == int_or_zero(SplitFirst(text))

(***************************************************************************)
(* load_folder_art and get_metadata.                                       *)
(***************************************************************************)
ArtCandidates ==
    <<"cover.jpg", "cover.png", "folder.jpg", "folder.png", "front.jpg",
      "front.png", "album.jpg", "album.png", "artwork.jpg", "artwork.png">>

\* lookup = {name.lower(): name ...}: the data of the entry a lowered name
\* maps to (the last entry with that lowered name); None when no entry has
\* the name or reading it raises
RECURSIVE EntryData(_, _, _)
EntryData(entries, name, found) ==
    IF entries = <<>> THEN found
    ELSE EntryData(Tail(entries), name,
                   IF Lower(Head(entries).name) = name
                   THEN Head(entries).data ELSE found)

OrElse(value, otherwise) == IF value # None THEN value ELSE otherwise

\* the loop over the candidates: the first one that can be read
RECURSIVE FirstArt(_, _)
FirstArt(entries, candidates) ==
    IF candidates = <<>> THEN None
    ELSE OrElse(EntryData(entries, Head(candidates), None),
                FirstArt(entries, Tail(candidates)))

load_folder_art(path) == FirstArt(DirTable[FileTable[path].dir], ArtCandidates)

\* audio.get(key, default)
TagOr(f, key, default) ==
    IF key \in DOMAIN f.tags THEN f.tags[key] ELSE default

\* the containers get_metadata reads tags from
Tagged == {"flac", "mp3"}

\* the fields get_metadata returns for the file content f; folder_art is
\* what load_folder_art returns for its directory.  A read that raises
\* leaves the defaults and skips the folder image.
meta_of(f, folder_art) ==
    [title |-> IF f.kind \in Tagged THEN TagOr(f, "title", "Unknown")
               ELSE "Unknown",
     artist |-> IF f.kind \in Tagged
                THEN TagOr(f, "artist", "Unknown Artist")
                ELSE "Unknown Artist",
     album |-> IF f.kind \in Tagged THEN TagOr(f, "album", "Unknown Album")
               ELSE "Unknown Album",
     track |-> IF f.kind = "flac" \/
                  (f.kind = "mp3" /\ "tracknumber" \in DOMAIN f.tags)
               THEN parse_track(TagOr(f, "tracknumber", <<"0">>))
               ELSE 0,
     art |-> IF f.kind \in Tagged /\ f.pics # <<>> THEN f.pics[1]
             ELSE IF f.kind = "corrupt" THEN None
             ELSE folder_art]

get_metadata(path) == meta_of(FileTable[path], load_folder_art(path))

\* meta always carries 'track', so the 999 default of .get is never taken
get_track_number(path) == get_metadata(path).track

(***************************************************************************)
(* scan_music_library: walk the root, group by album and artist, then sort *)
(* every album's track list by track number.                               *)
(***************************************************************************)
EmptyDict == [k \in {} |-> None]

\* the music roots a run can be constructed on: not a directory, or a
\* directory whose walk yields these files in this order
AllRoots ==
    {[isdir |-> FALSE, files |-> <<>>]} \cup
    {[isdir |-> TRUE, files |-> s] : s \in DistinctSeqs(Paths, MaxFiles)}

\* the roots the playback model is run on
Roots ==
    { [isdir |-> FALSE, files |-> <<>>],
      [isdir |-> TRUE, files |-> <<"a2", "a1", "a3">>],
      [isdir |-> TRUE, files |-> <<"b1", "a2", "a1">>] }

\* the roots the favorites pages are run on: the eleven-album library, and
\* a library that holds none of those albums
PagedRoots ==
    { [isdir |-> TRUE, files |-> PagedAlbums],
      [isdir |-> TRUE, files |-> <<"b1", "a2", "a1">>] }

\* file.lower().endswith(('.flac', '.mp3', '.m4a', '.ogg'))
IsAudio(path) == Lower(FileTable[path].ext) \in AudioExts

\* dict.setdefault(key, value)
SetDefault(d, key, value) ==
    IF key \in DOMAIN d THEN d ELSE d @@ (key :> value)

\* the loop body once the metadata is read
scan_add(idx, path, meta) ==
    [albums |-> IF meta.album \in DOMAIN idx.albums
                THEN [idx.albums EXCEPT ![meta.album] = Append(@, path)]
                ELSE idx.albums @@ (meta.album :> <<path>>),
     album_metadata |-> SetDefault(idx.album_metadata, meta.album,
                            [artist |-> meta.artist, art |-> meta.art]),
     artists |-> IF meta.artist \notin DOMAIN idx.artists
                 THEN idx.artists @@ (meta.artist :> <<meta.album>>)
                 ELSE IF meta.album \in Range(idx.artists[meta.artist])
                 THEN idx.artists
                 ELSE [idx.artists EXCEPT
                         ![meta.artist] = Append(@, meta.album)]]

\* one iteration of the loop body for an audio file
scan_file(idx, path) == scan_add(idx, path, get_metadata(path))

\* a walk that a file whose read raises brings to an end
RECURSIVE scan_walk_aborting(_, _)
scan_walk_aborting(idx, files) ==
    IF files = <<>> \/ FileTable[Head(files)].kind = "corrupt" THEN idx
    ELSE scan_walk_aborting(IF IsAudio(Head(files))
                            THEN scan_file(idx, Head(files)) ELSE idx,
                            Tail(files))

RECURSIVE scan_walk(_, _)
scan_walk(idx, files) ==
    IF files = <<>> THEN idx
    ELSE scan_walk(IF IsAudio(Head(files)) THEN scan_file(idx, Head(files))
                   ELSE idx,
                   Tail(files))

\* self.albums[album].sort(key=self.get_track_number)
sort_tracks(tracks) ==
    SortByKey(tracks, [p \in Range(tracks) |-> get_track_number(p)])

\* the loop over self.albums that sorts every track list
sorted_index(idx) ==
    [idx EXCEPT !.albums = [a \in DOMAIN idx.albums |->
                               sort_tracks(idx.albums[a])]]

EmptyIndex ==
    [albums |-> EmptyDict, album_metadata |-> EmptyDict,
     artists |-> EmptyDict]

scan_music_library(root) ==
    IF ~root.isdir THEN EmptyIndex
    ELSE sorted_index(scan_walk(EmptyIndex, root.files))

\* the index the scan builds on each root a run is restarted on
ScanTable ==
    [root \in Roots \cup PagedRoots |-> scan_music_library(root)]

\* sorted(d.keys())
SortedKeys(d) == FilterIn(NameOrder, DOMAIN d)

(***************************************************************************)
(* The favorites file: json.dump on write, json.load on read.  The text is *)
(* a sequence of tokens; a write that fails after open(..., "w") leaves a  *)
(* truncated text.                                                         *)
(***************************************************************************)
Tok(t, v) == [t |-> t, v |-> v]

json_item(x) == IF x = None THEN Tok("null", "") ELSE Tok("str", x)

RECURSIVE json_items(_)
json_items(list) ==
    IF list = <<>> THEN <<>>
    ELSE IF Len(list) = 1 THEN <<json_item(list[1])>>
    ELSE <<json_item(list[1]), Tok(",", "")>> \o json_items(Tail(list))

json_dump(list) == <<Tok("[", "")>> \o json_items(list) \o <<Tok("]", "")>>

IsValueTok(tok) == tok.t \in {"null", "str"}

json_value(tok) == IF tok.t = "null" THEN None ELSE tok.v

\* the items between the brackets: value (, value)*
RECURSIVE ItemsParse(_)
ItemsParse(toks) ==
    IF toks = <<>> THEN FALSE
    ELSE IF Len(toks) = 1 THEN IsValueTok(toks[1])
    ELSE /\ Len(toks) >= 3
         /\ IsValueTok(toks[1])
         /\ toks[2].t = ","
         /\ ItemsParse(SubSeq(toks, 3, Len(toks)))

RECURSIVE ItemsValue(_)
ItemsValue(toks) ==
    IF toks = <<>> THEN <<>>
    ELSE IF Len(toks) = 1 THEN <<json_value(toks[1])>>
    ELSE <<json_value(toks[1])>> \o ItemsValue(SubSeq(toks, 3, Len(toks)))

JsonParses(text) ==
    /\ Len(text) >= 2
    /\ text[1].t = "["
    /\ text[Len(text)].t = "]"
    /\ \/ Len(text) = 2
       \/ ItemsParse(SubSeq(text, 2, Len(text) - 1))

json_load(text) ==
    IF Len(text) = 2 THEN <<>> ELSE ItemsValue(SubSeq(text, 2, Len(text) - 1))

NoFile == [exists |-> FALSE, text |-> <<>>]

\* load_favorites: missing file or any exception yields []
load_favorites(file) ==
    IF file.exists /\ JsonParses(file.text) THEN json_load(file.text)
    ELSE <<>>

\* the file holding the dump of a list
saved_file(list) == [exists |-> TRUE, text |-> json_dump(list)]

\* how a write can end: it succeeds, open() raises (the file is untouched),
\* or the dump raises after open(..., "w") truncated the file
WriteOutcomes == {"ok", "open_failed", "write_failed"}

\* save_favorites that never reaches the dump
save_favorites_no_dump(file, list, outcome) ==
    [file |-> IF outcome = "write_failed"
              THEN [exists |-> TRUE, text |-> <<>>] ELSE file,
     raised |-> NoError]

\* save_favorites without the try/except
save_favorites_uncaught(file, list, outcome) ==
    [file |-> CASE outcome = "ok" -> saved_file(list)
                [] outcome = "open_failed" -> file
                [] OTHER -> [exists |-> TRUE, text |-> <<>>],
     raised |-> IF outcome = "ok" THEN NoError ELSE "OSError"]

\* save_favorites: the file it leaves and the exception that leaves it
\* (none: the except clause swallows every failure)
save_favorites(file, list, outcome) ==
    [file |-> CASE outcome = "ok" -> saved_file(list)
                [] outcome = "open_failed" -> file
                [] OTHER -> [exists |-> TRUE, text |-> <<>>],
     raised |-> NoError]

(***************************************************************************)
(* State.                                                                  *)
(***************************************************************************)
VARIABLES
    music_root,          \* the root the run was constructed on
    albums,              \* album name -> track paths
    album_metadata,      \* album name -> [artist, art]
    artists,             \* artist name -> album names
    favorites,           \* the in-memory favorites list
    favorites_file,      \* ~/.music_player_favorites.json
    current_tracks,
    current_album,
    current_index,
    track_ending,
    media,               \* the media set on the engine, or NoMedia
    engine_playing,      \* player.is_playing()
    album_page,
    artist_page,
    favorites_page,
    track_page,
    all_albums,
    all_artists,
    all_tracks_data,
    stack,               \* index of the page shown by the QStackedWidget
    album_list,          \* widget contents
    artist_list,
    favorites_list,
    track_list,
    detail_album_label,
    favorite_btn,        \* TRUE: filled heart
    play_btn,            \* TRUE: the buttons show the pause glyph (playing)
    now_playing,         \* the path whose metadata the now-playing labels show
    raised,              \* the exception that left the last handler
    last_op,             \* the handler that ran last, with its argument
    poll_run,            \* history of the current run of in-window polls
    toggle_run           \* history of the current run of favorite toggles

vars ==
    <<music_root, albums, album_metadata, artists, favorites, favorites_file,
      current_tracks, current_album, current_index, track_ending, media,
      engine_playing, album_page, artist_page, favorites_page, track_page,
      all_albums, all_artists, all_tracks_data, stack, album_list,
      artist_list, favorites_list, track_list,
      detail_album_label, favorite_btn, play_btn, now_playing, raised,
      last_op, poll_run, toggle_run>>

index_vars == <<music_root, albums, album_metadata, artists>>

fav_vars == <<favorites, favorites_file, favorites_list, favorite_btn>>

playback_vars ==
    <<current_index, track_ending, media, engine_playing, play_btn,
      now_playing>>

album_nav_vars == <<album_page, all_albums, album_list>>

artist_nav_vars == <<artist_page, all_artists, artist_list>>

track_nav_vars ==
    <<track_page, all_tracks_data, track_list, detail_album_label>>

\* init_ui stores the favorites page widget in self.favorites_page; it is
\* an integer again only once populate_lists has run
PageWidget == 0 - 1

Op(name, index, album) == [op |-> name, index |-> index, album |-> album]

NoPolls == [n |-> 0, nexts |-> 0, length |-> 0]

NoToggles == [n |-> 0, album |-> None, before |-> <<>>]

(***************************************************************************)
(* Page rendering.                                                         *)
(***************************************************************************)
PageOf(list, page, per_page) ==
    Slice(list, page * per_page, page * per_page + per_page)

\* fav_albums without the membership filter
fav_albums_unfiltered(favs, albs) == favs

\* fav_albums = [a for a in self.favorites if a in self.albums]
fav_albums(favs, albs) == FilterIn(favs, DOMAIN albs)

\* update_favorites_page: the items put into favorites_list
favorites_items(favs, albs, page) ==
    PageOf(fav_albums(favs, albs), page, favorites_per_page)

\* open_album: (i, "i+1. title") for every track
tracks_data(tracks) ==
    [i \in 1..Len(tracks) |->
        [idx |-> i - 1, title |-> get_metadata(tracks[i]).title]]

\* (len - 1) // per_page, Python floor division
MaxPage(len, per_page) == IF len = 0 THEN 0 - 1 ELSE (len - 1) \div per_page

(***************************************************************************)
(* Construction: __init__ loads the favorites, builds the pages, scans the *)
(* library and starts the timer.                                           *)
(***************************************************************************)
\* populate_lists, which scan_music_library reaches only when the root is
\* a directory; otherwise the lists stay empty and favorites_page stays the
\* page widget
populate_lists(isdir, idx, favs) ==
    IF isdir
    THEN [all_albums |-> SortedKeys(idx.albums),
          all_artists |-> SortedKeys(idx.artists),
          favorites_list |-> favorites_items(favs, idx.albums, 0),
          favorites_page |-> 0]
    ELSE [all_albums |-> <<>>, all_artists |-> <<>>,
          favorites_list |-> <<>>, favorites_page |-> PageWidget]

\* the fields after __init__, given the scanned index, the loaded
\* favorites and the result of populate_lists
ConstructedFrom(idx, favs, populated) ==
    /\ albums = idx.albums
    /\ album_metadata = idx.album_metadata
    /\ artists = idx.artists
    /\ favorites = favs
    /\ all_albums = populated.all_albums
    /\ all_artists = populated.all_artists
    /\ album_list = PageOf(populated.all_albums, 0, albums_per_page)
    /\ artist_list = PageOf(populated.all_artists, 0, artists_per_page)
    /\ favorites_list = populated.favorites_list
    /\ favorites_page = populated.favorites_page
    /\ current_tracks = <<>>
    /\ current_album = None
    /\ current_index = 0 - 1
    /\ track_ending = FALSE
    /\ media = NoMedia
    /\ engine_playing = FALSE
    /\ album_page = 0
    /\ artist_page = 0
    /\ track_page = 0
    /\ all_tracks_data = <<>>
    /\ stack = 0
    /\ track_list = <<>>
    /\ detail_album_label = [album |-> None, artist |-> None]
    /\ favorite_btn = FALSE
    /\ play_btn = FALSE
    /\ now_playing = None
    /\ raised = NoError
    /\ poll_run = NoPolls
    /\ toggle_run = NoToggles

ConstructedOn(root, idx, favs) ==
    ConstructedFrom(idx, favs, populate_lists(root.isdir, idx, favs))

Constructed(roots, files) ==
    /\ music_root \in roots
    /\ favorites_file \in files
    /\ last_op = Op("init", 0, None)
    /\ ConstructedOn(music_root, scan_music_library(music_root),
                     load_favorites(favorites_file))

Init == Constructed(Roots, {NoFile})

RestartedFrom(idx, favs, populated) ==
    /\ albums' = idx.albums
    /\ album_metadata' = idx.album_metadata
    /\ artists' = idx.artists
    /\ favorites' = favs
    /\ all_albums' = populated.all_albums
    /\ all_artists' = populated.all_artists
    /\ album_list' = PageOf(populated.all_albums, 0, albums_per_page)
    /\ artist_list' = PageOf(populated.all_artists, 0, artists_per_page)
    /\ favorites_list' = populated.favorites_list
    /\ favorites_page' = populated.favorites_page
    /\ current_tracks' = <<>>
    /\ current_album' = None
    /\ current_index' = 0 - 1
    /\ track_ending' = FALSE
    /\ media' = NoMedia
    /\ engine_playing' = FALSE
    /\ album_page' = 0
    /\ artist_page' = 0
    /\ track_page' = 0
    /\ all_tracks_data' = <<>>
    /\ stack' = 0
    /\ track_list' = <<>>
    /\ detail_album_label' = [album |-> None, artist |-> None]
    /\ favorite_btn' = FALSE
    /\ play_btn' = FALSE
    /\ now_playing' = None
    /\ raised' = NoError
    /\ poll_run' = NoPolls
    /\ toggle_run' = NoToggles

RestartedOn(root, idx, favs) ==
    RestartedFrom(idx, favs, populate_lists(root.isdir, idx, favs))

\* the process exits and is started again, on the same or another music
\* root; only the favorites file survives
Restart(root) ==
    /\ music_root' = root
    /\ favorites_file' = favorites_file
    /\ last_op' = Op("restart", 0, None)
    /\ RestartedOn(root, ScanTable[root], load_favorites(favorites_file))

(***************************************************************************)
(* The playback core, as functions of the playback fields.                 *)
(***************************************************************************)
PB ==
    [current_index |-> current_index, track_ending |-> track_ending,
     media |-> media, engine_playing |-> engine_playing,
     play_btn |-> play_btn, now_playing |-> now_playing,
     raised |-> NoError]

\* the range check of play_track
InRange(index, tracks) == index >= 0 /\ index < Len(tracks)

\* play_track with the index stored before the range check
play_track_unchecked_store(pb, tracks, index) ==
    IF ~InRange(index, tracks) THEN [pb EXCEPT !.current_index = index]
    ELSE [pb EXCEPT !.current_index = index,
                    !.track_ending = FALSE,
                    !.media = tracks[index + 1],
                    !.engine_playing = TRUE,
                    !.play_btn = TRUE,
                    !.now_playing = tracks[index + 1]]

\* play_track without the reset of the track-ending flag
play_track_keeps_flag(pb, tracks, index) ==
    IF ~InRange(index, tracks) THEN pb
    ELSE [pb EXCEPT !.current_index = index,
                    !.media = tracks[index + 1],
                    !.engine_playing = TRUE,
                    !.play_btn = TRUE,
                    !.now_playing = tracks[index + 1]]

play_track(pb, tracks, index) ==
    IF ~InRange(index, tracks) THEN pb
    ELSE [pb EXCEPT !.current_index = index,
                    !.track_ending = FALSE,
                    !.media = tracks[index + 1],
                    !.engine_playing = TRUE,
                    !.play_btn = TRUE,
                    !.now_playing = tracks[index + 1]]

\* next index that stops at the last track instead of wrapping
next_index_clamped(i, n) == IF i + 1 < n THEN i + 1 ELSE i

\* (self.current_index + 1) % len(self.current_tracks)
next_index(i, n) == (i + 1) % n

\* (self.current_index - 1) % len(self.current_tracks)
prev_index(i, n) == (i - 1) % n

next_track(pb, tracks) ==
    IF Len(tracks) = 0 THEN [pb EXCEPT !.raised = "ZeroDivisionError"]
    ELSE play_track(pb, tracks, next_index(pb.current_index, Len(tracks)))

prev_track(pb, tracks) ==
    IF Len(tracks) = 0 THEN [pb EXCEPT !.raised = "ZeroDivisionError"]
    ELSE play_track(pb, tracks, prev_index(pb.current_index, Len(tracks)))

toggle_play(pb) ==
    IF pb.engine_playing
    THEN [pb EXCEPT !.engine_playing = FALSE, !.play_btn = FALSE]
    ELSE [pb EXCEPT !.engine_playing = (pb.media # NoMedia),
                    !.play_btn = TRUE]

\* the guard of the auto-advance
advance_due(pb, length, cur) ==
    cur >= length - EndWindowMs /\ pb.engine_playing /\ ~pb.track_ending

\* update_progress without the is_playing() test of its guard
update_progress_unpaused_guard(pb, tracks, length, cur) ==
    IF length <= 0 THEN pb
    ELSE IF cur >= length - EndWindowMs /\ ~pb.track_ending
         THEN next_track([pb EXCEPT !.track_ending = TRUE], tracks)
         ELSE pb

update_progress(pb, tracks, length, cur) ==
    IF length <= 0 THEN pb
    ELSE IF advance_due(pb, length, cur)
         THEN next_track([pb EXCEPT !.track_ending = TRUE], tracks)
         ELSE pb

\* the assignment of the playback fields from a result of the core
SetPB(pb) ==
    /\ current_index' = pb.current_index
    /\ track_ending' = pb.track_ending
    /\ media' = pb.media
    /\ engine_playing' = pb.engine_playing
    /\ play_btn' = pb.play_btn
    /\ now_playing' = pb.now_playing
    /\ raised' = pb.raised

\* the values get_length() and get_time() can report
Lengths == {0 - 1, 0, 10000}

Times == {0, 9499, 9500, 9800}

\* the slider positions a seek is made to
SeekTargets == {0, 9600}

(***************************************************************************)
(* Navigation handlers.                                                    *)
(***************************************************************************)
\* a handler that is neither a poll nor a favorite toggle ends both runs
EndRuns == poll_run' = NoPolls /\ toggle_run' = NoToggles

\* the Back buttons of the albums, artists and favorites pages
GoLanding ==
    /\ stack \in {1, 2, 3}
    /\ stack' = 0
    /\ raised' = NoError
    /\ last_op' = Op("landing", 0, None)
    /\ EndRuns
    /\ UNCHANGED <<index_vars, fav_vars, favorites_page, playback_vars,
                   current_tracks, current_album, album_nav_vars,
                   artist_nav_vars, track_nav_vars>>

\* show_albums_page, from the landing page or through go_back_from_detail
ShowAlbumsPage ==
    /\ stack \in {0, 4}
    /\ all_albums' = SortedKeys(albums)
    /\ album_page' = 0
    /\ album_list' = PageOf(SortedKeys(albums), 0, albums_per_page)
    /\ stack' = 1
    /\ raised' = NoError
    /\ last_op' = Op("show_albums_page", 0, None)
    /\ EndRuns
    /\ UNCHANGED <<index_vars, fav_vars, favorites_page, playback_vars,
                   current_tracks, current_album, artist_nav_vars,
                   track_nav_vars>>

\* the Artists and Favorites buttons of the landing page
ShowPage(n) ==
    /\ stack = 0
    /\ stack' = n
    /\ raised' = NoError
    /\ last_op' = Op("show_page", n, None)
    /\ EndRuns
    /\ UNCHANGED <<index_vars, fav_vars, favorites_page, playback_vars,
                   current_tracks, current_album, album_nav_vars,
                   artist_nav_vars, track_nav_vars>>

\* show_artist_albums: the albums listed once an artist of the artists
\* page is clicked
artist_albums(artist) == artists[artist]

\* the album is one shown in the list of the page the user is on; on the
\* artists page the user first clicks an artist to list its albums
AlbumShown(album, pages) ==
    \/ 1 \in pages /\ stack = 1 /\ album \in Range(album_list)
    \/ 2 \in pages /\ stack = 2
         /\ \E artist \in Range(artist_list) :
               album \in Range(artist_albums(artist))
    \/ 3 \in pages /\ stack = 3 /\ album \in Range(favorites_list)

\* the tail of open_album: the track rows and their first page
ShowTracks(data) ==
    /\ all_tracks_data' = data
    /\ track_page' = 0
    /\ track_list' = PageOf(data, 0, tracks_per_page)

\* open_album without the assignment of current_tracks
open_album_keeps_tracks(album) ==
    /\ AlbumShown(album, {1, 2, 3})
    /\ raised' = NoError
    /\ last_op' = Op("open_album", 0, album)
    /\ EndRuns
    /\ IF album \notin DOMAIN albums
       THEN UNCHANGED <<current_album, current_tracks, track_nav_vars,
                        favorite_btn, stack>>
       ELSE /\ current_album' = album
            /\ current_tracks' = current_tracks
            /\ detail_album_label' =
                   [album |-> album, artist |-> album_metadata[album].artist]
            /\ favorite_btn' = (album \in Range(favorites))
            /\ ShowTracks(tracks_data(albums[album]))
            /\ stack' = 4
    /\ UNCHANGED <<index_vars, favorites, favorites_file, favorites_list,
                   favorites_page, playback_vars, album_nav_vars,
                   artist_nav_vars>>

\* open_album, through a double click or the preview's Open button
OpenAlbum(album) ==
    /\ AlbumShown(album, {1, 2, 3})
    /\ raised' = NoError
    /\ last_op' = Op("open_album", 0, album)
    /\ EndRuns
    /\ IF album \notin DOMAIN albums
       THEN UNCHANGED <<current_album, current_tracks, track_nav_vars,
                        favorite_btn, stack>>
       ELSE /\ current_album' = album
            /\ current_tracks' = albums[album]
            /\ detail_album_label' =
                   [album |-> album, artist |-> album_metadata[album].artist]
            /\ favorite_btn' = (album \in Range(favorites))
            /\ ShowTracks(tracks_data(albums[album]))
            /\ stack' = 4
    /\ UNCHANGED <<index_vars, favorites, favorites_file, favorites_list,
                   favorites_page, playback_vars, album_nav_vars,
                   artist_nav_vars>>

\* play_album, through the preview's Play button of the albums or the
\* favorites page
PlayAlbum(album) ==
    /\ AlbumShown(album, {1, 3})
    /\ last_op' = Op("play_album", 0, album)
    /\ EndRuns
    /\ IF album \notin DOMAIN albums
       THEN /\ raised' = NoError
            /\ UNCHANGED <<current_album, current_tracks, favorite_btn,
                           stack, playback_vars>>
       ELSE /\ current_album' = album
            /\ current_tracks' = albums[album]
            /\ favorite_btn' = (album \in Range(favorites))
            /\ IF albums[album] # <<>>
               THEN /\ SetPB(play_track(PB, albums[album], 0))
                    /\ stack' = 5
               ELSE /\ raised' = NoError
                    /\ UNCHANGED <<stack, playback_vars>>
    /\ UNCHANGED <<index_vars, favorites, favorites_file, favorites_list,
                   favorites_page, album_nav_vars, artist_nav_vars,
                   track_nav_vars>>

\* the Back button of the now-playing page
NowPlayingBack ==
    /\ stack = 5
    /\ stack' = 4
    /\ raised' = NoError
    /\ last_op' = Op("now_playing_back", 0, None)
    /\ EndRuns
    /\ UNCHANGED <<index_vars, fav_vars, favorites_page, playback_vars,
                   current_tracks, current_album, album_nav_vars,
                   artist_nav_vars, track_nav_vars>>

(***************************************************************************)
(* Playback handlers.                                                      *)
(***************************************************************************)
nav_vars ==
    <<album_nav_vars, artist_nav_vars, track_nav_vars, favorites_page>>

\* a click on a row of the album detail page's track list
PlaySelectedTrack(item) ==
    /\ stack = 4
    /\ item \in Range(track_list)
    /\ SetPB(play_track(PB, current_tracks, item.idx))
    /\ stack' = 5
    /\ last_op' = Op("play_selected_track", item.idx, None)
    /\ EndRuns
    /\ UNCHANGED <<index_vars, fav_vars, current_tracks, current_album,
                   nav_vars>>

\* play_track called with an arbitrary index
PlayTrack(index) ==
    /\ SetPB(play_track(PB, current_tracks, index))
    /\ last_op' = Op("play_track", index, None)
    /\ EndRuns
    /\ UNCHANGED <<index_vars, fav_vars, current_tracks, current_album,
                   nav_vars, stack>>

\* the play button of a sidebar or of the now-playing page, or the space key
TogglePlay ==
    /\ SetPB(toggle_play(PB))
    /\ last_op' = Op("toggle_play", 0, None)
    /\ EndRuns
    /\ UNCHANGED <<index_vars, fav_vars, current_tracks, current_album,
                   nav_vars, stack>>

\* the pages that carry transport buttons: the three list pages (sidebar)
\* and the now-playing page
TransportPages == {1, 2, 3, 5}

NextTrack ==
    /\ stack \in TransportPages
    /\ SetPB(next_track(PB, current_tracks))
    /\ last_op' = Op("next_track", current_index, None)
    /\ EndRuns
    /\ UNCHANGED <<index_vars, fav_vars, current_tracks, current_album,
                   nav_vars, stack>>

PrevTrack ==
    /\ stack \in TransportPages
    /\ SetPB(prev_track(PB, current_tracks))
    /\ last_op' = Op("prev_track", current_index, None)
    /\ EndRuns
    /\ UNCHANGED <<index_vars, fav_vars, current_tracks, current_album,
                   nav_vars, stack>>

\* seek: player.set_time(value); the engine's position is read back only
\* through get_time, whose report the model leaves open
Seek(value) ==
    /\ stack = 5
    /\ raised' = NoError
    /\ last_op' = Op("seek", value, None)
    /\ EndRuns
    /\ UNCHANGED <<index_vars, fav_vars, current_tracks, current_album,
                   playback_vars, nav_vars, stack>>

\* the engine reaches the end of the media by itself
EngineEnd ==
    /\ engine_playing
    /\ engine_playing' = FALSE
    /\ raised' = NoError
    /\ last_op' = Op("engine_end", 0, None)
    /\ EndRuns
    /\ UNCHANGED <<index_vars, fav_vars, current_tracks, current_album,
                   current_index, track_ending, media, play_btn, now_playing,
                   nav_vars, stack>>

\* one poll counts towards the run when the track list is not empty, the
\* engine plays and the position is inside the trailing window of the
\* same length as the polls before it
PollCounts(length, cur) ==
    /\ current_tracks # <<>>
    /\ length > 0
    /\ engine_playing
    /\ cur >= length - EndWindowMs

NextCalled(length, cur) == length > 0 /\ advance_due(PB, length, cur)

\* the timer tick: update_progress with the engine's reports
UpdateProgress(length, cur) ==
    /\ media = NoMedia => length = 0 - 1
    /\ SetPB(update_progress(PB, current_tracks, length, cur))
    /\ last_op' = Op("update_progress", IF NextCalled(length, cur) THEN 1
                                         ELSE 0, None)
    /\ poll_run' =
          IF ~PollCounts(length, cur) THEN NoPolls
          ELSE IF /\ poll_run.n > 0
                  /\ poll_run.n < MaxPolls
                  /\ poll_run.length = length
               THEN [n |-> poll_run.n + 1,
                     nexts |-> poll_run.nexts +
                               (IF NextCalled(length, cur) THEN 1 ELSE 0),
                     length |-> length]
               ELSE [n |-> 1,
                     nexts |-> IF NextCalled(length, cur) THEN 1 ELSE 0,
                     length |-> length]
    /\ toggle_run' = NoToggles
    /\ UNCHANGED <<index_vars, fav_vars, current_tracks, current_album,
                   nav_vars, stack>>

(***************************************************************************)
(* Favorites.                                                              *)
(***************************************************************************)
\* list.remove(x): drops the first occurrence
RECURSIVE list_remove(_, _)
list_remove(list, x) ==
    IF list = <<>> THEN <<>>
    ELSE IF Head(list) = x THEN Tail(list)
    ELSE <<Head(list)>> \o list_remove(Tail(list), x)

\* toggle_favorite that puts a new favorite first
toggled_prepend(favs, album) ==
    IF album \in Range(favs) THEN list_remove(favs, album)
    ELSE <<album>> \o favs

\* toggle_favorite without the membership test
toggled_always_append(favs, album) == Append(favs, album)

\* the membership flip of toggle_favorite
toggled(favs, album) ==
    IF album \in Range(favs) THEN list_remove(favs, album)
    ELSE Append(favs, album)

\* toggle_favorite once the list is flipped (favs) and saved (saved)
ToggledTo(favs, saved) ==
    /\ favorites' = favs
    /\ favorites_file' = saved.file
    /\ IF saved.raised # NoError
       THEN /\ raised' = saved.raised
            /\ UNCHANGED <<favorites_list, favorite_btn>>
       ELSE IF favorites_page = PageWidget
       THEN /\ raised' = "TypeError"
            /\ favorites_list' = <<>>
            /\ UNCHANGED favorite_btn
       ELSE /\ raised' = NoError
            /\ favorites_list' = favorites_items(favs, albums, favorites_page)
            /\ favorite_btn' = (current_album \in Range(favs))

SavedAs(favs, outcome) ==
    ToggledTo(favs, save_favorites(favorites_file, favs, outcome))

\* the heart button of the album detail page
ToggleFavorite(outcome) ==
    /\ stack = 4
    /\ SavedAs(toggled(favorites, current_album), outcome)
    /\ toggle_run' =
          IF toggle_run.n = 1 /\ toggle_run.album = current_album
          THEN [toggle_run EXCEPT !.n = 2]
          ELSE [n |-> 1, album |-> current_album, before |-> favorites]
    /\ last_op' = Op("toggle_favorite", IF outcome = "ok" THEN 1 ELSE 0,
                     current_album)
    /\ poll_run' = NoPolls
    /\ UNCHANGED <<index_vars, favorites_page, playback_vars, current_tracks,
                   current_album, album_nav_vars, artist_nav_vars,
                   track_nav_vars, stack>>

(***************************************************************************)
(* Pagination: prev_page and next_page of the page the user is on.         *)
(***************************************************************************)
PageOfList == [albums |-> 1, artists |-> 2, favorites |-> 3, tracks |-> 4]

ListTypes == DOMAIN PageOfList

PrevPage(list_type) ==
    /\ stack = PageOfList[list_type]
    /\ last_op' = Op("prev_page", 0, list_type)
    /\ EndRuns
    /\ CASE list_type = "albums" ->
              /\ raised' = NoError
              /\ IF album_page > 0
                 THEN /\ album_page' = album_page - 1
                      /\ album_list' = PageOf(all_albums, album_page - 1,
                                              albums_per_page)
                 ELSE UNCHANGED <<album_page, album_list>>
              /\ UNCHANGED <<all_albums, artist_nav_vars, track_nav_vars,
                             favorites_page, favorites_list>>
         [] list_type = "artists" ->
              /\ raised' = NoError
              /\ IF artist_page > 0
                 THEN /\ artist_page' = artist_page - 1
                      /\ artist_list' = PageOf(all_artists, artist_page - 1,
                                               artists_per_page)
                 ELSE UNCHANGED <<artist_page, artist_list>>
              /\ UNCHANGED <<all_artists, album_nav_vars, track_nav_vars,
                             favorites_page, favorites_list>>
         [] list_type = "favorites" ->
              /\ IF favorites_page = PageWidget
                 THEN /\ raised' = "TypeError"
                      /\ UNCHANGED <<favorites_page, favorites_list>>
                 ELSE /\ raised' = NoError
                      /\ IF favorites_page > 0
                         THEN /\ favorites_page' = favorites_page - 1
                              /\ favorites_list' =
                                     favorites_items(favorites, albums,
                                                     favorites_page - 1)
                         ELSE UNCHANGED <<favorites_page, favorites_list>>
              /\ UNCHANGED <<album_nav_vars, artist_nav_vars, track_nav_vars>>
         [] list_type = "tracks" ->
              /\ raised' = NoError
              /\ IF track_page > 0
                 THEN /\ track_page' = track_page - 1
                      /\ track_list' = PageOf(all_tracks_data, track_page - 1,
                                              tracks_per_page)
                 ELSE UNCHANGED <<track_page, track_list>>
              /\ UNCHANGED <<all_tracks_data, detail_album_label,
                             album_nav_vars, artist_nav_vars, favorites_page,
                             favorites_list>>
    /\ UNCHANGED <<index_vars, favorites, favorites_file, favorite_btn,
                   playback_vars, current_tracks, current_album, stack>>

NextPage(list_type) ==
    /\ stack = PageOfList[list_type]
    /\ last_op' = Op("next_page", 0, list_type)
    /\ EndRuns
    /\ CASE list_type = "albums" ->
              /\ raised' = NoError
              /\ IF album_page < MaxPage(Len(all_albums), albums_per_page)
                 THEN /\ album_page' = album_page + 1
                      /\ album_list' = PageOf(all_albums, album_page + 1,
                                              albums_per_page)
                 ELSE UNCHANGED <<album_page, album_list>>
              /\ UNCHANGED <<all_albums, artist_nav_vars, track_nav_vars,
                             favorites_page, favorites_list>>
         [] list_type = "artists" ->
              /\ raised' = NoError
              /\ IF artist_page < MaxPage(Len(all_artists), artists_per_page)
                 THEN /\ artist_page' = artist_page + 1
                      /\ artist_list' = PageOf(all_artists, artist_page + 1,
                                               artists_per_page)
                 ELSE UNCHANGED <<artist_page, artist_list>>
              /\ UNCHANGED <<all_artists, album_nav_vars, track_nav_vars,
                             favorites_page, favorites_list>>
         [] list_type = "favorites" ->
              /\ IF favorites_page = PageWidget
                 THEN /\ raised' = "TypeError"
                      /\ UNCHANGED <<favorites_page, favorites_list>>
                 ELSE /\ raised' = NoError
                      /\ LET shown == fav_albums(favorites, albums)
                             max_page == IF shown # <<>>
                                         THEN MaxPage(Len(shown),
                                                      favorites_per_page)
                                         ELSE 0
                         IN IF favorites_page < max_page
                            THEN /\ favorites_page' = favorites_page + 1
                                 /\ favorites_list' =
                                        favorites_items(favorites, albums,
                                                        favorites_page + 1)
                            ELSE UNCHANGED <<favorites_page, favorites_list>>
              /\ UNCHANGED <<album_nav_vars, artist_nav_vars, track_nav_vars>>
         [] list_type = "tracks" ->
              /\ raised' = NoError
              /\ IF track_page < MaxPage(Len(all_tracks_data), tracks_per_page)
                 THEN /\ track_page' = track_page + 1
                      /\ track_list' = PageOf(all_tracks_data, track_page + 1,
                                              tracks_per_page)
                 ELSE UNCHANGED <<track_page, track_list>>
              /\ UNCHANGED <<all_tracks_data, detail_album_label,
                             album_nav_vars, artist_nav_vars, favorites_page,
                             favorites_list>>
    /\ UNCHANGED <<index_vars, favorites, favorites_file, favorite_btn,
                   playback_vars, current_tracks, current_album, stack>>

(***************************************************************************)
(* Specifications.                                                         *)
(***************************************************************************)
Next ==
    \/ GoLanding
    \/ ShowAlbumsPage
    \/ \E n \in {2, 3} : ShowPage(n)
    \/ \E album \in DOMAIN albums : OpenAlbum(album)
    \/ \E album \in DOMAIN albums : PlayAlbum(album)
    \/ NowPlayingBack
    \/ \E item \in Range(track_list) : PlaySelectedTrack(item)
    \/ \E index \in (0 - 1)..MaxIndex : PlayTrack(index)
    \/ TogglePlay
    \/ NextTrack
    \/ PrevTrack
    \/ \E value \in SeekTargets : Seek(value)
    \/ EngineEnd
    \/ \E length \in Lengths, cur \in Times : UpdateProgress(length, cur)
    \/ \E outcome \in WriteOutcomes : ToggleFavorite(outcome)
    \/ \E list_type \in ListTypes : PrevPage(list_type)
    \/ \E list_type \in ListTypes : NextPage(list_type)
    \/ \E root \in Roots : Restart(root)

Spec == Init /\ [][Next]_vars

\* the scan on every music root within the bounds: construction on any of
\* them, and a restart on one of the playback roots
ScanInit == Constructed(AllRoots, {NoFile})

ScanNext == \E root \in Roots : Restart(root)

ScanSpec == ScanInit /\ [][ScanNext]_vars

\* the favorites pages of a run started on a favorites file that an
\* earlier run wrote after every album of the eleven-album library was
\* made a favorite: browsing, paging, opening and toggling albums, and
\* restarts on either library
PagedInputs == {"F01", "F11", "A"}

PagedInit == Constructed(PagedRoots, {saved_file(PagedAlbums)})

PagedNext ==
    \/ GoLanding
    \/ ShowAlbumsPage
    \/ ShowPage(3)
    \/ \E album \in PagedInputs : OpenAlbum(album)
    \/ \E outcome \in WriteOutcomes : ToggleFavorite(outcome)
    \/ \E list_type \in {"albums", "favorites"} : PrevPage(list_type)
    \/ \E list_type \in {"albums", "favorites"} : NextPage(list_type)
    \/ \E root \in PagedRoots : Restart(root)

PagedSpec == PagedInit /\ [][PagedNext]_vars

(***************************************************************************)
(* Properties.                                                             *)
(***************************************************************************)
\* the handlers of the playback core
CoreOps ==
    {"play_track", "toggle_play", "next_track", "prev_track", "seek",
     "update_progress", "toggle_favorite"}

\* C1: three consecutive polls inside the trailing window of one fixed
\* length, while the engine plays and nothing else runs in between, invoke
\* next_track exactly once.
C1_AutoAdvanceOnce == poll_run.n = 3 => poll_run.nexts = 1

\* C2 as stated: toggling the same album twice in a row returns the
\* favorites list to exactly the list before the first toggle.
C2_ToggleTwiceRestores == toggle_run.n = 2 => favorites = toggle_run.before

\* C2 amended: toggling the same album twice in a row restores the
\* membership and the relative order of all other albums; the list is
\* exactly restored when the album was not a favorite, otherwise the album
\* ends up last.
C2_ToggleTwiceMovesLast ==
    toggle_run.n = 2 =>
        LET before == toggle_run.before
            album == toggle_run.album
            Others(list) == FilterIn(list, Range(list) \ {album})
        IN /\ Range(favorites) = Range(before)
           /\ Len(favorites) = Len(before)
           /\ Others(favorites) = Others(before)
           /\ album \in Range(before) =>
                 favorites[Len(favorites)] = album
           /\ album \notin Range(before) => favorites = before

\* C2 witness: the album toggled twice was a favorite and not the last one
C2_Witness ==
    /\ toggle_run.n = 2
    /\ toggle_run.album \in Range(toggle_run.before)
    /\ toggle_run.before[Len(toggle_run.before)] # toggle_run.album

\* the tag gives the track a number: a track-number field whose text before
\* "/" is an integer
HasTrackNumber(path) ==
    /\ FileTable[path].kind \in {"flac", "mp3"}
    /\ "tracknumber" \in DOMAIN FileTable[path].tags
    /\ IntParses(SplitFirst(FileTable[path].tags.tracknumber))

TagNumber(path) == IntValue(SplitFirst(FileTable[path].tags.tracknumber))

\* C3: after the scan every album's track list is in non-decreasing track
\* number order, and tracks without a (parseable) track number come after
\* all the tracks that have one.
C3_TracksSortedUnnumberedLast ==
    \A album \in DOMAIN albums :
        \A i, j \in 1..Len(albums[album]) :
            i < j =>
                LET first == albums[album][i]
                    second == albums[album][j]
                IN /\ HasTrackNumber(first) /\ HasTrackNumber(second) =>
                        TagNumber(first) <= TagNumber(second)
                   /\ ~(~HasTrackNumber(first) /\ HasTrackNumber(second))

\* C4: no handler of the playback core raises, in any reachable state.
C4_NoCoreOperationRaises == last_op.op \in CoreOps => raised = NoError

\* C5: a play_track with an index below 0 or at or beyond the length of
\* the track list raises nothing and changes none of the playback state.
C5_RejectedPlayTrackIsNoOp ==
    [][(/\ last_op'.op \in {"play_track", "play_selected_track"}
        /\ \/ last_op'.index < 0
           \/ last_op'.index >= Len(current_tracks))
       => /\ raised' = NoError
          /\ UNCHANGED <<current_index, current_album, current_tracks,
                         track_ending, media, engine_playing, play_btn>>]_vars

\* C5 witness: a track row of the displayed album was clicked whose index
\* is beyond the playback track list, while another track plays
C5_Witness ==
    /\ last_op.op = "play_selected_track"
    /\ last_op.index >= Len(current_tracks)
    /\ current_index >= 0
    /\ engine_playing

\* C6: from a valid index i of n >= 1 tracks, next_track moves to i+1 or
\* from n-1 to 0, prev_track to i-1 or from 0 to n-1, and the track at the
\* new index is loaded and playing.
C6_NextPrevWrap ==
    [][LET n == Len(current_tracks)
           i == current_index
           Loaded == /\ media' = current_tracks[current_index' + 1]
                     /\ engine_playing'
       IN (n >= 1 /\ i >= 0 /\ i < n) =>
            /\ (\/ last_op'.op = "next_track"
                \/ last_op'.op = "update_progress" /\ last_op'.index = 1)
               => /\ current_index' = (IF i = n - 1 THEN 0 ELSE i + 1)
                  /\ Loaded
            /\ last_op'.op = "prev_track"
               => /\ current_index' = (IF i = 0 THEN n - 1 ELSE i - 1)
                  /\ Loaded]_vars

\* C6 witness: next_track on the last of three tracks wrapped to the first
C6_Witness ==
    /\ last_op.op = "next_track"
    /\ Len(current_tracks) = 3
    /\ last_op.index = 2
    /\ current_index = 0

\* C7: after a toggle whose write succeeds the file holds the in-memory
\* list, and a restart right after it loads the same list.
C7_FavoritesFlushed ==
    [][/\ (last_op'.op = "toggle_favorite" /\ last_op'.index = 1)
          => /\ favorites_file'.exists
             /\ JsonParses(favorites_file'.text)
             /\ json_load(favorites_file'.text) = favorites'
       /\ (/\ last_op'.op = "restart"
           /\ last_op.op = "toggle_favorite"
           /\ last_op.index = 1)
          => favorites' = favorites]_vars

\* C7 witness: a restart right after a successful write of two favorites
C7_Witness ==
    /\ last_op.op = "restart"
    /\ Len(favorites) = 2
    /\ favorites_file = saved_file(favorites)

\* C8: a toggle whose write fails raises nothing and still flips the
\* membership of the current album in memory.
C8_WriteFailureKeepsToggle ==
    [][(last_op'.op = "toggle_favorite" /\ last_op'.index = 0)
       => /\ raised' = NoError
          /\ (current_album \in Range(favorites'))
               # (current_album \in Range(favorites))]_vars

\* C8 witness: the write failed and memory holds a favorite the file lacks
C8_Witness ==
    /\ last_op.op = "toggle_favorite"
    /\ last_op.index = 0
    /\ current_album \in Range(favorites)
    /\ current_album \notin Range(load_favorites(favorites_file))

\* the files of the root that the scan reads
ScannedFiles == {p \in Range(music_root.files) : IsAudio(p)}

\* the path is in the track list of the album, and the album is listed
\* under the artist
GroupedUnder(path, album, artist) ==
    /\ album \in DOMAIN albums
    /\ path \in Range(albums[album])
    /\ artist \in DOMAIN artists
    /\ album \in Range(artists[artist])

\* the file is a FLAC or MP3 file that carries an album and an artist tag
WellTagged(path) ==
    /\ FileTable[path].kind \in {"flac", "mp3"}
    /\ {"album", "artist"} \subseteq DOMAIN FileTable[path].tags

NumberText(path) == FileTable[path].tags.tracknumber

\* C12: every scanned file (flac, mp3, m4a, ogg) whose tag carries
\* track-number text "N" or "N/Total" resolves to track number N, and text
\* that does not parse as an integer before "/" resolves to 0.
C12_TrackNumberIsTagNumber ==
    \A p \in ScannedFiles :
        "tracknumber" \in DOMAIN FileTable[p].tags
        => get_track_number(p) =
              IF IntParses(SplitFirst(NumberText(p)))
              THEN IntValue(SplitFirst(NumberText(p))) ELSE 0

\* C13: a scanned file's art is its first embedded picture when it has
\* one, whatever its directory holds; otherwise it is the folder image, and
\* it is absent only when there is neither.
C13_EmbeddedArtThenFolderArt ==
    \A p \in ScannedFiles :
        get_metadata(p).art =
            IF FileTable[p].pics # <<>> THEN FileTable[p].pics[1]
            ELSE load_folder_art(p)

\* the artists whose list in the artist index holds the album
ArtistsOf(album) == {r \in DOMAIN artists : album \in Range(artists[r])}

\* how many times x occurs in the list
Occurrences(list, x) == Cardinality({i \in 1..Len(list) : list[i] = x})

\* C14: after the scan every indexed path is in exactly one album's track
\* list, exactly once, and every album is listed under exactly one artist,
\* the one recorded as the album's artist.
C14_OneAlbumPerTrackOneArtistPerAlbum ==
    /\ \A p \in ScannedFiles :
          /\ Cardinality({a \in DOMAIN albums : p \in Range(albums[a])}) = 1
          /\ \A a \in DOMAIN albums : Occurrences(albums[a], p) <= 1
    /\ \A a \in DOMAIN albums : ArtistsOf(a) = {album_metadata[a].artist}

\* the art the scan resolves for each track of the album
TrackArts(album) == {get_metadata(p).art : p \in Range(albums[album])}

\* C15: an album's art is non-null as soon as any of its tracks resolves
\* to non-null art, even when its first discovered track has none.
C15_AlbumArtIsFirstNonNull ==
    \A a \in DOMAIN albums :
        TrackArts(a) # {None} => album_metadata[a].art # None

\* the playback fields with the track-ending flag as given
PBWith(flag) == [PB EXCEPT !.track_ending = flag]

\* what a play_track call on the current track list does to the flag:
\* cleared by an index in range, kept by a rejected one
PlayTrackFlag(flag, index) ==
    play_track(PBWith(flag), current_tracks, index).track_ending =
        (IF InRange(index, current_tracks) THEN FALSE ELSE flag)

\* a poll that meets no part of the advance guard keeps the flag
IdlePollKeepsFlag(flag, length, cur) ==
    (length <= 0 \/ cur < length - EndWindowMs \/ ~engine_playing)
    => update_progress(PBWith(flag), current_tracks, length, cur).track_ending
         = flag

\* C16: a play_track call with an index in range sets current_index to
\* it, loads current_tracks[index], starts playback, shows the indicator as
\* playing and clears the track-ending flag; toggle, seek, a poll without
\* advance, open_album, toggle_favorite and a rejected play_track leave the
\* flag as it is, whatever its value.
C16_PlayTrackLoadsAndClearsFlag ==
    /\ [](\A flag \in BOOLEAN :
            /\ \A index \in (0 - 1)..MaxIndex : PlayTrackFlag(flag, index)
            /\ toggle_play(PBWith(flag)).track_ending = flag
            /\ \A length \in Lengths, cur \in Times :
                  IdlePollKeepsFlag(flag, length, cur))
    /\ [][/\ (/\ last_op'.op = "play_track"
              /\ InRange(last_op'.index, current_tracks))
             => /\ current_index' = last_op'.index
                /\ media' = current_tracks[last_op'.index + 1]
                /\ engine_playing'
                /\ play_btn'
                /\ ~track_ending'
          /\ last_op'.op \in {"toggle_play", "seek", "open_album",
                              "toggle_favorite"}
             => track_ending' = track_ending]_vars

\* C16 witness: play_track(1) has just loaded the second track of the
\* current list and started it
C16_Witness ==
    /\ last_op.op = "play_track"
    /\ last_op.index = 1
    /\ current_index = 1
    /\ Len(current_tracks) >= 2
    /\ media = current_tracks[2]
    /\ engine_playing
    /\ play_btn
    /\ ~track_ending

\* the guard the claim names, on the engine's reports and the flag
FullGuard(flag, length, cur) ==
    /\ length > 0
    /\ cur >= length - EndWindowMs
    /\ engine_playing
    /\ ~flag

\* a poll outside the guard returns the playback fields as they were
PollOutsideGuardIsNoOp(flag, length, cur) ==
    ~FullGuard(flag, length, cur)
    => update_progress(PBWith(flag), current_tracks, length, cur)
         = PBWith(flag)

\* C17: a poll calls next() only under the full guard (length > 0,
\* position >= length - 500, engine playing, flag unset); any other poll
\* leaves current_index, current_tracks, the loaded media and the flag
\* unchanged.
C17_PollAdvancesOnlyUnderGuard ==
    /\ [](\A flag \in BOOLEAN, length \in Lengths, cur \in Times :
            PollOutsideGuardIsNoOp(flag, length, cur))
    /\ [][last_op'.op = "update_progress"
          => /\ last_op'.index = 1 => engine_playing /\ ~track_ending
             /\ last_op'.index = 0
                => UNCHANGED <<current_index, current_tracks, media,
                               track_ending>>]_vars

\* C17 witness: a poll under the guard has moved from the first track to
\* the second
C17_Witness ==
    /\ last_op.op = "update_progress"
    /\ last_op.index = 1
    /\ poll_run.n = 1
    /\ current_index = 1
    /\ media = current_tracks[2]

\* C18: toggle() pauses a playing engine and otherwise issues play; after
\* it the indicator shows playing exactly when the engine plays, in every
\* reachable state, Idle included, and it changes none of current_album,
\* current_tracks, current_index and the track-ending flag.
C18_ToggleMirrorsEngine ==
    [][last_op'.op = "toggle_play"
       => /\ engine_playing => ~engine_playing'
          /\ play_btn' = engine_playing'
          /\ UNCHANGED <<current_album, current_tracks, current_index,
                         track_ending>>]_vars

\* C19: current_index is -1 or an index into the current track list.
C19_CurrentIndexInRange ==
    current_index = 0 - 1 \/ InRange(current_index, current_tracks)

\* C20: whenever a track is loaded, the engine's media is
\* current_tracks[current_index], so next, prev and the auto-advance move
\* within the album of the playing track.
C20_MediaIsCurrentTrack ==
    current_index # 0 - 1
    => /\ InRange(current_index, current_tracks)
       /\ media = current_tracks[current_index + 1]

\* C21: whenever the album detail page is shown, the album whose name and
\* track rows it displays is current_album.
C21_DetailPageShowsCurrentAlbum ==
    stack = 4
    => /\ detail_album_label.album = current_album
       /\ all_tracks_data = tracks_data(current_tracks)

\* max(0, ceil(len / per_page) - 1)
LastPage(len, per_page) == IF len = 0 THEN 0 ELSE (len - 1) \div per_page

PageInRange(page, len, per_page) ==
    0 <= page /\ page <= LastPage(len, per_page)

\* C22: every pagination index stays within its list; for the favorites
\* the list is the favorites that exist in the album index.
C22_PagesWithinLists ==
    /\ PageInRange(album_page, Len(all_albums), albums_per_page)
    /\ PageInRange(artist_page, Len(all_artists), artists_per_page)
    /\ PageInRange(track_page, Len(all_tracks_data), tracks_per_page)
    /\ PageInRange(favorites_page,
                   Len(SelectSeq(favorites, LAMBDA a : a \in DOMAIN albums)),
                   favorites_per_page)

\* C23: the playback track list is the indexed track list of the current
\* album (none and empty before an album is chosen), and no playback,
\* navigation or favorites operation changes the index the scan built.
C23_TracksAreCurrentAlbumTracks ==
    /\ [](IF current_album = None THEN current_tracks = <<>>
          ELSE /\ current_album \in DOMAIN albums
               /\ current_tracks = albums[current_album])
    /\ [][last_op'.op # "restart"
          => UNCHANGED <<albums, album_metadata, artists>>]_vars

\* C23 witness: album B was opened while a track of album A plays
C23_Witness ==
    /\ last_op.op = "open_album"
    /\ current_album = "B"
    /\ current_tracks = albums["B"]
    /\ "A" \in DOMAIN albums
    /\ media \in Range(albums["A"])

\* the favorites that name an album of the index, in list order
ExistingFavorites == SelectSeq(favorites, LAMBDA a : a \in DOMAIN albums)

\* the entries of a list other than x, in list order
Others(list, x) == SelectSeq(list, LAMBDA a : a # x)

\* the rows of a list from offset first (0-based) on, at most count of them
RowsFrom(list, first, count) ==
    [i \in 1..(IF Len(list) - first < count
               THEN (IF Len(list) < first THEN 0 ELSE Len(list) - first)
               ELSE count) |-> list[first + i]]

\* a toggle leaves every entry other than the toggled album in place, in
\* memory
ToggleKeepsOthers ==
    last_op'.op = "toggle_favorite"
    => Others(favorites', current_album) = Others(favorites, current_album)

NoDuplicates(list) ==
    \A i, j \in 1..Len(list) : i # j => list[i] # list[j]

====
